---- MODULE Spec2Model ----
(***************************************************************************)
(* TiyendeVendor: the in-memory Storage Engine (MemStorage), the           *)
(* Authentication Gate (setupAuth) and the HTTP API Layer (registerRoutes) *)
(* as a state machine.  One action per HTTP handler; the storage methods   *)
(* are operators that return their result together with the new           *)
(* collection.  Records are functions from field names to values, so the   *)
(* object spread {...a, ...b} of the source is Merge(a, b).                *)
(***************************************************************************)
EXTENDS Integers, Sequences, FiniteSets, TLC

\* ------------------------------------------------------------------ bounds
MaxVendors == 2
MaxRecords == 1
MaxStored  == 2
MaxTime    == 2
MaxDash    == 2
MaxBookings == 3
MaxCascade == 3

\* --------------------------------------------------------------- value sets
Sessions  == {"c1", "c2"}
Usernames == {"John", "alice"}
Passwords == {"john123", "alicepw1"}
Types     == {"routes", "buses", "trips", "bookings", "payments"}
Editable  == {"routes", "buses", "trips"}
Statused  == {"bookings", "payments"}

\* ------------------------------------------------------------------ records
Undefined == [undefined |-> TRUE]
EmptyBody == [f \in {} |-> 0]
EmptyMap  == [k \in {} |-> Undefined]

\* {...a, ...b}
Merge(a, b) ==
  [f \in DOMAIN a \cup DOMAIN b |-> IF f \in DOMAIN b THEN b[f] ELSE a[f]]

\* const { f, ...rest } = r
Without(r, f) == [g \in DOMAIN r \ {f} |-> r[g]]

\* Map.set(k, v)
Put(m, k, v) == [j \in DOMAIN m \cup {k} |-> IF j = k THEN v ELSE m[j]]

\* Map.delete(k)
Remove(m, k) == [j \in DOMAIN m \ {k} |-> m[j]]

Min(S) == CHOOSE x \in S : \A y \in S : x <= y

\* Array.from(map.values()): a Map iterates in insertion order, and keys are
\* inserted in increasing order of the counter
RECURSIVE Values(_)
Values(m) ==
  IF DOMAIN m = {} THEN <<>>
  ELSE LET k == Min(DOMAIN m) IN <<m[k]>> \o Values(Remove(m, k))

\* Array.prototype.filter, on a predicate given as the set of elements it keeps
RECURSIVE Filter(_, _)
Filter(seq, keep) ==
  IF seq = <<>> THEN <<>>
  ELSE (IF Head(seq) \in keep THEN <<Head(seq)>> ELSE <<>>) \o Filter(Tail(seq), keep)

Range(seq) == {seq[i] : i \in 1..Len(seq)}

\* -------------------------------------------------------------------- state
VARIABLES
  vendors,    \* MemStorage.vendors: key -> Vendor
  vendorId,   \* MemStorage.vendorId: the next Vendor key
  store,      \* MemStorage.routes, buses, trips, bookings, payments: key -> record
  nextId,     \* MemStorage.routeId, busId, tripId, bookingId, paymentId
  session,    \* per client, the key passport serialized into its session (0: none)
  now,        \* the clock read by new Date(); only the specifications with Tick advance it
  res,        \* the response to the last request
  inflight,   \* per client, its request that is between two awaits (SpecConc)
  createdBy,  \* history: per record, the vendor key of the session that created it
  assigned    \* history: per collection, the ids handed out by create, in order

vars == <<vendors, vendorId, store, nextId, session, now, res, inflight,
          createdBy, assigned>>

\* ------------------------------------------------------------ bcrypt (auth)
hashPassword(password) == "$2b$10$" \o password

comparePasswords(supplied, stored) == stored = hashPassword(supplied)

\* --------------------------------------------------- MemStorage: vendors
getVendor(id) == IF id \in DOMAIN vendors THEN vendors[id] ELSE Undefined

\* a lookup that never finds a vendor
getVendorByUsername_none(username) == Undefined

getVendorByUsername(username) ==
  LET hits == {k \in DOMAIN vendors :
                 "username" \in DOMAIN vendors[k] /\ vendors[k].username = username}
  IN IF hits = {} THEN Undefined ELSE vendors[Min(hits)]

createVendor(vendor) ==
  LET id == vendorId
      newVendor == Merge(vendor, [id |-> id, createdAt |-> now])
  IN [vendor |-> newVendor, vendors |-> Put(vendors, id, newVendor), vendorId |-> id + 1]

updateVendor(id, updates) ==
  IF id \notin DOMAIN vendors
  THEN [vendor |-> Undefined, vendors |-> vendors]
  ELSE LET updatedVendor == Merge(vendors[id], updates)
       IN [vendor |-> updatedVendor, vendors |-> Put(vendors, id, updatedVendor)]

\* the vendor the constructor seeds
johnUser ==
  [username |-> "John", password |-> hashPassword("john123"),
   email |-> "john@tiyende.co.zm"]

\* -------------------------------------- MemStorage: vendor-scoped collections
getRecord(t, id) == IF id \in DOMAIN store[t] THEN store[t][id] ELSE Undefined

getByVendor(t, vid) ==
  Filter(Values(store[t]), {r \in Range(Values(store[t])) : r.vendorId = vid})

\* a create that stores the identity and the owner and drops the other fields
createRecord_lossy(t, data) ==
  LET id == nextId[t]
      newRecord == [id |-> id, createdAt |-> now, vendorId |-> data.vendorId]
  IN [record |-> newRecord, id |-> id,
      coll |-> Put(store[t], id, newRecord), nextId |-> id + 1]

\* a create that derives the id from the size of the collection
createRecord_sizeId(t, data) ==
  LET id == Cardinality(DOMAIN store[t]) + 1
      newRecord == Merge(data, [id |-> id, createdAt |-> now])
  IN [record |-> newRecord, id |-> id,
      coll |-> Put(store[t], id, newRecord), nextId |-> nextId[t] + 1]

createRecord(t, data) ==
  LET id == nextId[t]
      newRecord == Merge(data, [id |-> id, createdAt |-> now])
  IN [record |-> newRecord, id |-> id,
      coll |-> Put(store[t], id, newRecord), nextId |-> id + 1]

\* an update that replaces the record by the supplied fields
updateRecord_replace(t, id, updates) ==
  IF id \notin DOMAIN store[t]
  THEN [record |-> Undefined, coll |-> store[t]]
  ELSE [record |-> updates, coll |-> Put(store[t], id, updates)]

\* an update that creates the record when it is absent
updateRecord_upsert(t, id, updates) ==
  [record |-> IF id \in DOMAIN store[t] THEN Merge(store[t][id], updates) ELSE Undefined,
   coll |-> Put(store[t], id,
                IF id \in DOMAIN store[t] THEN Merge(store[t][id], updates) ELSE updates)]

updateRecord(t, id, updates) ==
  IF id \notin DOMAIN store[t]
  THEN [record |-> Undefined, coll |-> store[t]]
  ELSE LET updated == Merge(store[t][id], updates)
       IN [record |-> updated, coll |-> Put(store[t], id, updated)]

\* a delete that always reports a removal
deleteRecord_true(t, id) == [found |-> TRUE, coll |-> Remove(store[t], id)]

deleteRecord(t, id) ==
  [found |-> id \in DOMAIN store[t], coll |-> Remove(store[t], id)]

updateStatus(t, id, status) == updateRecord(t, id, [status |-> status])

\* ------------------------------------------------------- schema (drizzle-zod)
\* the columns of each insert schema that the model carries; id and createdAt
\* are omitted from every insert schema, so parse strips them
SchemaFields(t) ==
  CASE t = "routes"   -> {"vendorId", "price"}
    [] t = "buses"    -> {"vendorId", "capacity"}
    [] t = "trips"    -> {"vendorId", "departureTime", "arrivalTime", "status"}
    [] t = "bookings" -> {"vendorId", "tripId", "seatCount", "status", "bookingDate"}
    [] t = "payments" -> {"vendorId", "bookingId", "amount", "status"}

\* notNull columns without a default
Required(t) ==
  CASE t = "routes"   -> {"vendorId", "price"}
    [] t = "buses"    -> {"vendorId", "capacity"}
    [] t = "trips"    -> {"vendorId", "departureTime", "arrivalTime"}
    [] t = "bookings" -> {"vendorId", "tripId"}
    [] t = "payments" -> {"vendorId", "bookingId", "amount"}

\* insertXSchema.parse(input): throws a ZodError when a required column is
\* missing or vendorId is undefined (0), and otherwise returns the input
\* restricted to the schema's columns
parse(t, input) ==
  IF Required(t) \subseteq DOMAIN input /\ input.vendorId # 0
  THEN [ok |-> TRUE, data |-> [f \in DOMAIN input \cap SchemaFields(t) |-> input[f]]]
  ELSE [ok |-> FALSE, data |-> EmptyBody]

\* ------------------------------------------------------------ request bodies
ValidBody(t) ==
  CASE t = "routes"   -> [price |-> 150]
    [] t = "buses"    -> [capacity |-> 50]
    [] t = "trips"    -> [departureTime |-> 1, arrivalTime |-> 2]
    [] t = "bookings" -> [tripId |-> 1, seatCount |-> 2, bookingDate |-> 1]
    [] t = "payments" -> [bookingId |-> 1, amount |-> 100, status |-> "completed"]

VendorKeys == 1..MaxVendors

CreateBodies(t) ==
  {EmptyBody, ValidBody(t), Merge(ValidBody(t), [id |-> 99])}
    \cup {Merge(ValidBody(t), [vendorId |-> v]) : v \in VendorKeys}

DataPatch(t) ==
  CASE t = "routes" -> [price |-> 200]
    [] t = "buses"  -> [capacity |-> 60]
    [] t = "trips"  -> [status |-> "cancelled"]

PatchBodies(t) ==
  {EmptyBody, DataPatch(t), [id |-> 99], [createdAt |-> now + 1]}
    \cup {[vendorId |-> v] : v \in VendorKeys}

StatusBodies(t) ==
  {EmptyBody} \cup
  {[status |-> v] : v \in (IF t = "bookings" THEN {"confirmed", "cancelled", "bogus"}
                                            ELSE {"completed", "refunded", "bogus"})}

RegisterBodies ==
  LET base == {[username |-> u, password |-> p, email |-> u \o "@tiyende.co.zm"] :
                 u \in Usernames, p \in Passwords}
  IN base \cup {Merge(b, [id |-> 1]) : b \in base}

ProfileBodies ==
  {EmptyBody, [password |-> "hacked"]}
    \cup {[id |-> v] : v \in VendorKeys}
    \cup {[username |-> u] : u \in Usernames}

\* ------------------------------------------------- passport session (auth)
\* passport.serializeUser: the value kept in the session
serializeUser(vendor) == vendor.id

\* passport.deserializeUser: the vendor a session key stands for
deserializeUser(id) == getVendor(id)

\* req.user, as passport.session() sets it before any handler runs
reqUser(s) == IF session[s] = 0 THEN Undefined ELSE deserializeUser(session[s])

\* req.isAuthenticated()
isAuthenticated(s) == reqUser(s) # Undefined

\* passport.session() drops a session key that deserializes to no vendor
Deserialized(s) ==
  IF session[s] # 0 /\ ~isAuthenticated(s) THEN [session EXCEPT ![s] = 0] ELSE session

\* req.login(vendor)
login(s, vendor) == [Deserialized(s) EXCEPT ![s] = serializeUser(vendor)]

\* a middleware that lets every request through
ensureAuthenticated_open(s) == TRUE

\* the middleware in front of every handler of registerRoutes
ensureAuthenticated(s) == isAuthenticated(s)

\* req.user?.id; 0 stands for undefined, which no assigned id equals
userId(s) == IF reqUser(s) = Undefined THEN 0 ELSE reqUser(s).id

\* a response that keeps every field of the vendor
withoutPassword_leak(vendor) == vendor

withoutPassword(vendor) == Without(vendor, "password")

Resp(op, status, body) == [op |-> op, status |-> status, body |-> body]

Unauthorized(op) == Resp(op, 401, [message |-> "Unauthorized"])

Singular(t) ==
  CASE t = "routes" -> "Route" [] t = "buses" -> "Bus" [] t = "trips" -> "Trip"
    [] t = "bookings" -> "Booking" [] t = "payments" -> "Payment"

Noun(t) ==
  CASE t = "routes" -> "route" [] t = "buses" -> "bus" [] t = "trips" -> "trip"
    [] t = "bookings" -> "booking" [] t = "payments" -> "payment"

NotFound(op, t) == Resp(op, 404, [message |-> Singular(t) \o " not found"])

Path(t) == "/api/" \o t

\* the records ever created in the vendor-scoped collections
Created ==
  (nextId["routes"] - 1) + (nextId["buses"] - 1) + (nextId["trips"] - 1)
    + (nextId["bookings"] - 1) + (nextId["payments"] - 1)

storageVars == <<vendors, vendorId, store, nextId>>
historyVars == <<createdBy, assigned>>

\* no request in flight
Idle == [pc |-> "idle"]

\* --------------------------------------------------------------------- Init
Init ==
  LET seeded == Merge(johnUser, [id |-> 1, createdAt |-> 0])
  IN /\ vendors = Put(EmptyMap, 1, seeded)
     /\ vendorId = 2
     /\ store = [t \in Types |-> EmptyMap]
     /\ nextId = [t \in Types |-> 1]
     /\ session = [s \in Sessions |-> 0]
     /\ now = 0
     /\ res = Resp("none", 0, EmptyBody)
     /\ inflight = [s \in Sessions |-> Idle]
     /\ createdBy = [t \in Types |-> EmptyMap]
     /\ assigned = [t \in Types \cup {"vendors"} |->
                      IF t = "vendors" THEN <<1>> ELSE <<>>]

\* time passes between requests
Tick ==
  /\ now < MaxTime
  /\ now' = now + 1
  /\ UNCHANGED <<vendors, vendorId, store, nextId, session, res, inflight,
                 createdBy, assigned>>

\* ------------------------------------------------------ setupAuth handlers
\* POST /api/register
Register(s, body) ==
  LET op == "POST /api/register"
      existingVendor == getVendorByUsername(body.username)
      c == createVendor(Merge(body, [password |-> hashPassword(body.password)]))
  IN IF existingVendor # Undefined
     THEN /\ res' = Resp(op, 400, "Username already exists")
          /\ session' = Deserialized(s)
          /\ UNCHANGED <<storageVars, historyVars, now, inflight>>
     ELSE /\ vendorId <= MaxVendors
          /\ vendors' = c.vendors
          /\ vendorId' = c.vendorId
          /\ session' = login(s, c.vendor)
          /\ res' = Resp(op, 201, withoutPassword(c.vendor))
          /\ assigned' = [assigned EXCEPT !["vendors"] = Append(@, c.vendor.id)]
          /\ UNCHANGED <<store, nextId, createdBy, now, inflight>>

\* the LocalStrategy verify callback: the vendor, or Undefined for done(null, false)
verify(username, password) ==
  LET vendor == getVendorByUsername(username)
  IN IF vendor = Undefined \/ ~comparePasswords(password, vendor.password)
     THEN Undefined
     ELSE vendor

\* POST /api/login
Login(s, username, password) ==
  LET op == "POST /api/login"
      vendor == verify(username, password)
  IN /\ IF vendor = Undefined
        THEN /\ res' = Resp(op, 401, "Unauthorized")
             /\ session' = Deserialized(s)
        ELSE /\ res' = Resp(op, 200, withoutPassword(vendor))
             /\ session' = login(s, vendor)
     /\ UNCHANGED <<storageVars, historyVars, now, inflight>>

\* a logout that answers 200 and keeps the session
Logout_keep(s) ==
  /\ session' = session
  /\ res' = Resp("POST /api/logout", 200, "OK")
  /\ UNCHANGED <<storageVars, historyVars, now, inflight>>

\* POST /api/logout
Logout(s) ==
  /\ session' = [session EXCEPT ![s] = 0]
  /\ res' = Resp("POST /api/logout", 200, "OK")
  /\ UNCHANGED <<storageVars, historyVars, now, inflight>>

\* GET /api/vendor
GetVendor(s) ==
  LET op == "GET /api/vendor"
  IN /\ res' = IF ~isAuthenticated(s) THEN Resp(op, 401, "Unauthorized")
               ELSE Resp(op, 200, withoutPassword(reqUser(s)))
     /\ session' = Deserialized(s)
     /\ UNCHANGED <<storageVars, historyVars, now, inflight>>

\* ---------------------------------------------- registerRoutes: the profile
\* GET /api/profile
GetProfile(s) ==
  LET op == "GET /api/profile"
  IN /\ res' = IF ~ensureAuthenticated(s) THEN Unauthorized(op)
               ELSE Resp(op, 200, withoutPassword(reqUser(s)))
     /\ session' = Deserialized(s)
     /\ UNCHANGED <<storageVars, historyVars, now, inflight>>

\* a profile update that passes the whole body to the storage engine
PatchProfile_raw(s, body) ==
  LET op == "PATCH /api/profile"
      u == updateVendor(userId(s), body)
  IN /\ session' = Deserialized(s)
     /\ IF ~ensureAuthenticated(s)
        THEN res' = Unauthorized(op) /\ UNCHANGED vendors
        ELSE IF u.vendor = Undefined
        THEN res' = Resp(op, 404, [message |-> "Vendor not found"]) /\ UNCHANGED vendors
        ELSE res' = Resp(op, 200, withoutPassword(u.vendor)) /\ vendors' = u.vendors
     /\ UNCHANGED <<vendorId, store, nextId, historyVars, now, inflight>>

\* PATCH /api/profile
PatchProfile(s, body) ==
  LET op == "PATCH /api/profile"
      updates == Without(body, "password")
      u == updateVendor(userId(s), updates)
  IN /\ session' = Deserialized(s)
     /\ IF ~ensureAuthenticated(s)
        THEN res' = Unauthorized(op) /\ UNCHANGED vendors
        ELSE IF u.vendor = Undefined
        THEN res' = Resp(op, 404, [message |-> "Vendor not found"]) /\ UNCHANGED vendors
        ELSE res' = Resp(op, 200, withoutPassword(u.vendor)) /\ vendors' = u.vendors
     /\ UNCHANGED <<vendorId, store, nextId, historyVars, now, inflight>>

\* ------------------------------------- registerRoutes: vendor-scoped resources
\* GET /api/routes, /api/buses, /api/trips, /api/bookings, /api/payments
List(s, t) ==
  LET op == "GET " \o Path(t)
  IN /\ res' = IF ~ensureAuthenticated(s) THEN Unauthorized(op)
               ELSE Resp(op, 200, getByVendor(t, userId(s)))
     /\ session' = Deserialized(s)
     /\ UNCHANGED <<storageVars, historyVars, now, inflight>>

\* GET /api/routes/:id
GetRoute(s, id) ==
  LET op == "GET /api/routes/:id"
      route == getRecord("routes", id)
  IN /\ res' = IF ~ensureAuthenticated(s) THEN Unauthorized(op)
               ELSE IF route = Undefined \/ route.vendorId # userId(s)
               THEN NotFound(op, "routes")
               ELSE Resp(op, 200, route)
     /\ session' = Deserialized(s)
     /\ UNCHANGED <<storageVars, historyVars, now, inflight>>

\* a create that takes the next id before it validates the body
Create_consume(s, t, body) ==
  LET op == "POST " \o Path(t)
      p == parse(t, Merge(body, [vendorId |-> userId(s)]))
      c == createRecord(t, p.data)
  IN /\ session' = Deserialized(s)
     /\ IF ~ensureAuthenticated(s)
        THEN res' = Unauthorized(op) /\ UNCHANGED <<store, nextId, historyVars>>
        ELSE IF ~p.ok
        THEN /\ res' = Resp(op, 400, [message |-> "Invalid " \o Noun(t) \o " data"])
             /\ nextId' = [nextId EXCEPT ![t] = IF @ <= MaxRecords THEN @ + 1 ELSE @]
             /\ UNCHANGED <<store, historyVars>>
        ELSE /\ Created < MaxRecords
             /\ store' = [store EXCEPT ![t] = c.coll]
             /\ nextId' = [nextId EXCEPT ![t] = c.nextId]
             /\ res' = Resp(op, 201, c.record)
             /\ createdBy' = [createdBy EXCEPT ![t] = Put(@, c.id, session[s])]
             /\ assigned' = [assigned EXCEPT ![t] = Append(@, c.id)]
     /\ UNCHANGED <<vendors, vendorId, now, inflight>>

\* POST /api/routes, /api/buses, /api/trips, /api/bookings, /api/payments
Create(s, t, body) ==
  LET op == "POST " \o Path(t)
      p == parse(t, Merge(body, [vendorId |-> userId(s)]))
      c == createRecord(t, p.data)
  IN /\ session' = Deserialized(s)
     /\ IF ~ensureAuthenticated(s)
        THEN res' = Unauthorized(op) /\ UNCHANGED <<store, nextId, historyVars>>
        ELSE IF ~p.ok
        THEN /\ res' = Resp(op, 400, [message |-> "Invalid " \o Noun(t) \o " data"])
             /\ UNCHANGED <<store, nextId, historyVars>>
        ELSE /\ Created < MaxRecords
             /\ store' = [store EXCEPT ![t] = c.coll]
             /\ nextId' = [nextId EXCEPT ![t] = c.nextId]
             /\ res' = Resp(op, 201, c.record)
             /\ createdBy' = [createdBy EXCEPT ![t] = Put(@, c.id, session[s])]
             /\ assigned' = [assigned EXCEPT ![t] = Append(@, c.id)]
     /\ UNCHANGED <<vendors, vendorId, now, inflight>>

\* PATCH /api/routes/:id, /api/buses/:id, /api/trips/:id
Patch(s, t, id, body) ==
  LET op == "PATCH " \o Path(t) \o "/:id"
      record == getRecord(t, id)
      u == updateRecord(t, id, body)
  IN /\ session' = Deserialized(s)
     /\ IF ~ensureAuthenticated(s)
        THEN res' = Unauthorized(op) /\ UNCHANGED store
        ELSE IF record = Undefined \/ record.vendorId # userId(s)
        THEN res' = NotFound(op, t) /\ UNCHANGED store
        ELSE res' = Resp(op, 200, u.record) /\ store' = [store EXCEPT ![t] = u.coll]
     /\ UNCHANGED <<vendors, vendorId, nextId, historyVars, now, inflight>>

\* DELETE /api/routes/:id, /api/buses/:id, /api/trips/:id
Delete(s, t, id) ==
  LET op == "DELETE " \o Path(t) \o "/:id"
      record == getRecord(t, id)
      d == deleteRecord(t, id)
  IN /\ session' = Deserialized(s)
     /\ IF ~ensureAuthenticated(s)
        THEN res' = Unauthorized(op) /\ UNCHANGED store
        ELSE IF record = Undefined \/ record.vendorId # userId(s)
        THEN res' = NotFound(op, t) /\ UNCHANGED store
        ELSE res' = Resp(op, 204, "") /\ store' = [store EXCEPT ![t] = d.coll]
     /\ UNCHANGED <<vendors, vendorId, nextId, historyVars, now, inflight>>

\* PATCH /api/bookings/:id/status, /api/payments/:id/status
PatchStatus(s, t, id, body) ==
  LET op == "PATCH " \o Path(t) \o "/:id/status"
      record == getRecord(t, id)
      u == updateStatus(t, id, body.status)
  IN /\ session' = Deserialized(s)
     /\ IF ~ensureAuthenticated(s)
        THEN res' = Unauthorized(op) /\ UNCHANGED store
        ELSE IF record = Undefined \/ record.vendorId # userId(s)
        THEN res' = NotFound(op, t) /\ UNCHANGED store
        ELSE IF "status" \notin DOMAIN body
        THEN res' = Resp(op, 400, [message |-> "Status is required"]) /\ UNCHANGED store
        ELSE res' = Resp(op, 200, u.record) /\ store' = [store EXCEPT ![t] = u.coll]
     /\ UNCHANGED <<vendors, vendorId, nextId, historyVars, now, inflight>>

\* ------------------------------------------------ MemStorage: derived queries
\* Array.prototype.sort is stable: insertion after the elements that compare equal
RECURSIVE InsertKeyed(_, _)
InsertKeyed(p, sorted) ==
  IF sorted = <<>> THEN <<p>>
  ELSE IF p[1] < Head(sorted)[1] THEN <<p>> \o sorted
  ELSE <<Head(sorted)>> \o InsertKeyed(p, Tail(sorted))

RECURSIVE SortKeyed(_)
SortKeyed(pairs) ==
  IF pairs = <<>> THEN <<>>
  ELSE InsertKeyed(pairs[Len(pairs)], SortKeyed(SubSeq(pairs, 1, Len(pairs) - 1)))

Unkey(pairs) == [i \in 1..Len(pairs) |-> pairs[i][2]]

\* Array.prototype.slice(0, limit), limit >= 0
Slice(seq, limit) == SubSeq(seq, 1, IF limit < Len(seq) THEN limit ELSE Len(seq))

RECURSIVE SumField(_, _)
SumField(seq, f) ==
  IF seq = <<>> THEN 0 ELSE Head(seq)[f] + SumField(Tail(seq), f)

\* a JavaScript number: NaN, or a value
Num(n) == [nan |-> FALSE, val |-> n]
NaN == [nan |-> TRUE, val |-> 0]

\* reduce((sum, r) => sum + r[f], 0): a record without the field makes the sum NaN
Reduce(seq, f) ==
  IF \E i \in 1..Len(seq) : f \notin DOMAIN seq[i] THEN NaN ELSE Num(SumField(seq, f))

\* the orders of the elements of a sequence
Perms(seq) ==
  LET n == Len(seq)
  IN {[i \in 1..n |-> seq[f[i]]] :
        f \in {g \in [1..n -> 1..n] : \A i, j \in 1..n : i # j => g[i] # g[j]}}

\* an upcoming-trips query that truncates without sorting
getUpcomingTripsByVendor_unsorted(vid, limit) ==
  LET all == Values(store["trips"])
      kept == Filter(all, {r \in Range(all) : r.vendorId = vid /\ r.departureTime > now})
  IN Slice(kept, limit)

getUpcomingTripsByVendor(vid, limit) ==
  LET all == Values(store["trips"])
      kept == Filter(all, {r \in Range(all) : r.vendorId = vid /\ r.departureTime > now})
      keyed == [i \in 1..Len(kept) |-> <<kept[i].departureTime, kept[i]>>]
  IN Slice(Unkey(SortKeyed(keyed)), limit)

\* the results Array.prototype.sort allows. A booking stored without
\* bookingDate makes the comparator return NaN, which sort reads as 0: while
\* all bookings are dated the sort is the stable descending one; while every
\* comparison reads 0 the order of insertion is kept; otherwise the comparator
\* is not consistent and the order is implementation-defined.
getRecentBookingsByVendor(vid, limit) ==
  LET kept == getByVendor("bookings", vid)
      n == Len(kept)
      dated == {i \in 1..n : "bookingDate" \in DOMAIN kept[i]}
      consistent == \/ dated = 1..n
                    \/ \A i, j \in dated : kept[i].bookingDate = kept[j].bookingDate
      keyed == [i \in 1..n |->
                  <<IF dated = 1..n THEN 0 - kept[i].bookingDate ELSE 0, kept[i]>>]
      sorted == IF consistent THEN {Unkey(SortKeyed(keyed))} ELSE Perms(kept)
  IN {Slice(r, limit) : r \in sorted}

\* statistics whose revenue counts the payments of every status
getDashboardStats_anyStatus(vid) ==
  LET vendorBookings == getByVendor("bookings", vid)
      vendorPayments == getByVendor("payments", vid)
  IN [totalPassengers |-> Reduce(vendorBookings, "seatCount"),
      activeTrips |-> 0,
      revenue |-> Reduce(vendorPayments, "amount"),
      bookings |-> Len(vendorBookings),
      percentChanges |-> [passengers |-> "12", trips |-> "5",
                          revenue |-> "8.2", bookings |-> "-2.3"]]

\* statistics whose active trips leave out a trip that departs or arrives now
getDashboardStats_exclusive(vid) ==
  LET vendorBookings == getByVendor("bookings", vid)
      allTrips == Values(store["trips"])
      activeTrips == Filter(allTrips, {r \in Range(allTrips) :
                        r.vendorId = vid /\ r.departureTime < now /\ r.arrivalTime > now})
      allPayments == Values(store["payments"])
      vendorPayments == Filter(allPayments, {r \in Range(allPayments) :
                          r.vendorId = vid /\ "status" \in DOMAIN r /\ r.status = "completed"})
  IN [totalPassengers |-> Reduce(vendorBookings, "seatCount"),
      activeTrips |-> Len(activeTrips),
      revenue |-> Reduce(vendorPayments, "amount"),
      bookings |-> Len(vendorBookings),
      percentChanges |-> [passengers |-> "12", trips |-> "5",
                          revenue |-> "8.2", bookings |-> "-2.3"]]

getDashboardStats(vid) ==
  LET vendorBookings == getByVendor("bookings", vid)
      allTrips == Values(store["trips"])
      activeTrips == Filter(allTrips, {r \in Range(allTrips) :
                        r.vendorId = vid /\ r.departureTime <= now /\ r.arrivalTime >= now})
      allPayments == Values(store["payments"])
      vendorPayments == Filter(allPayments, {r \in Range(allPayments) :
                          r.vendorId = vid /\ "status" \in DOMAIN r /\ r.status = "completed"})
  IN [totalPassengers |-> Reduce(vendorBookings, "seatCount"),
      activeTrips |-> Len(activeTrips),
      revenue |-> Reduce(vendorPayments, "amount"),
      bookings |-> Len(vendorBookings),
      percentChanges |-> [passengers |-> "12", trips |-> "5",
                          revenue |-> "8.2", bookings |-> "-2.3"]]

\* the limit when the query carries none
DefaultLimit == 5

Queries == {EmptyBody, [limit |-> 0], [limit |-> 1]}

\* req.query.limit ? parseInt(req.query.limit) : 5
limitOf(query) == IF "limit" \in DOMAIN query THEN query.limit ELSE DefaultLimit

\* GET /api/dashboard/stats
GetStats(s) ==
  LET op == "GET /api/dashboard/stats"
  IN /\ res' = IF ~ensureAuthenticated(s) THEN Unauthorized(op)
               ELSE Resp(op, 200, getDashboardStats(userId(s)))
     /\ session' = Deserialized(s)
     /\ UNCHANGED <<storageVars, historyVars, now, inflight>>

\* GET /api/trips/upcoming
GetUpcoming(s, query) ==
  LET op == "GET /api/trips/upcoming"
  IN /\ res' = IF ~ensureAuthenticated(s) THEN Unauthorized(op)
               ELSE Resp(op, 200, getUpcomingTripsByVendor(userId(s), limitOf(query)))
     /\ session' = Deserialized(s)
     /\ UNCHANGED <<storageVars, historyVars, now, inflight>>

\* GET /api/bookings/recent
GetRecent(s, query) ==
  LET op == "GET /api/bookings/recent"
  IN /\ IF ~ensureAuthenticated(s) THEN res' = Unauthorized(op)
        ELSE \E r \in getRecentBookingsByVendor(userId(s), limitOf(query)) :
               res' = Resp(op, 200, r)
     /\ session' = Deserialized(s)
     /\ UNCHANGED <<storageVars, historyVars, now, inflight>>

\* ------------------------------------------------------------ specification
\* the ids a request can name: every id a create can assign, and one beyond
Ids == 1..(MaxRecords + 1)

\* The HTTP API Layer over the vendor-scoped collections, requests handled one
\* at a time, with the Authentication Gate requests that give a client an
\* identity and the profile bodies that touch the field the API scopes by.
ApiSessions == {"c1"}
ApiRegisterBodies == {[username |-> "alice", password |-> "alicepw1",
                       email |-> "alice@tiyende.co.zm"]}
ApiProfileBodies == {EmptyBody} \cup {[id |-> v] : v \in VendorKeys}

Next ==
  \/ \E s \in ApiSessions, body \in ApiRegisterBodies : Register(s, body)
  \/ \E s \in ApiSessions, u \in Usernames, p \in Passwords : Login(s, u, p)
  \/ \E s \in ApiSessions : Logout(s)
  \/ \E s \in ApiSessions : GetProfile(s)
  \/ \E s \in ApiSessions, body \in ApiProfileBodies : PatchProfile(s, body)
  \/ \E s \in ApiSessions : GetStats(s)
  \/ \E s \in ApiSessions, t \in Types : List(s, t)
  \/ \E s \in ApiSessions, id \in Ids : GetRoute(s, id)
  \/ \E s \in ApiSessions, q \in Queries : GetUpcoming(s, q)
  \/ \E s \in ApiSessions, q \in Queries : GetRecent(s, q)
  \/ \E s \in ApiSessions, t \in Types : \E body \in CreateBodies(t) : Create(s, t, body)
  \/ \E s \in ApiSessions, t \in Editable, id \in Ids : \E body \in PatchBodies(t) :
       Patch(s, t, id, body)
  \/ \E s \in ApiSessions, t \in Editable, id \in Ids : Delete(s, t, id)
  \/ \E s \in ApiSessions, t \in Statused, id \in Ids : \E body \in StatusBodies(t) :
       PatchStatus(s, t, id, body)

Spec == Init /\ [][Next]_vars

\* The Authentication Gate and the profile, requests handled one at a time.
NextAuth ==
  \/ \E s \in ApiSessions, body \in RegisterBodies : Register(s, body)
  \/ \E s \in ApiSessions, u \in Usernames, p \in Passwords : Login(s, u, p)
  \/ \E s \in ApiSessions : Logout(s)
  \/ \E s \in ApiSessions : GetVendor(s)
  \/ \E s \in ApiSessions : GetProfile(s)
  \/ \E s \in ApiSessions, body \in ProfileBodies : PatchProfile(s, body)

SpecAuth == Init /\ [][NextAuth]_vars

\* The Authentication Gate with two clients, requests handled one at a time.
NextSession ==
  \/ \E s \in Sessions, body \in ApiRegisterBodies : Register(s, body)
  \/ \E s \in Sessions, u \in Usernames, p \in Passwords : Login(s, u, p)
  \/ \E s \in Sessions : Logout(s)
  \/ \E s \in Sessions : GetVendor(s)
  \/ \E s \in Sessions, body \in ApiProfileBodies : PatchProfile(s, body)

SpecSession == Init /\ [][NextSession]_vars

\* The requests that write a login name or an email: register and the profile
\* update, with a login name and an email that another vendor may hold.
Emails == {"john@tiyende.co.zm", "alice@tiyende.co.zm"}
IdentityRegisterBodies ==
  {[username |-> "alice", password |-> "alicepw1", email |-> e] : e \in Emails}
IdentityProfileBodies ==
  {EmptyBody} \cup {[username |-> u] : u \in Usernames} \cup {[email |-> e] : e \in Emails}

NextIdentity ==
  \/ \E s \in ApiSessions, body \in IdentityRegisterBodies : Register(s, body)
  \/ \E s \in ApiSessions, u \in Usernames, p \in Passwords : Login(s, u, p)
  \/ \E s \in ApiSessions : Logout(s)
  \/ \E s \in ApiSessions, body \in IdentityProfileBodies : PatchProfile(s, body)

SpecIdentity == Init /\ [][NextIdentity]_vars

\* The trip endpoints, with bodies whose arrival is after, at and before the
\* departure.
TripTimes == {1, 2, 3}
TripBodies == {[departureTime |-> d, arrivalTime |-> a] : d \in TripTimes, a \in TripTimes}
TripPatches == {EmptyBody, [status |-> "cancelled"]}
                 \cup {[arrivalTime |-> a] : a \in TripTimes}
                 \cup {[departureTime |-> d] : d \in TripTimes}

NextTripApi ==
  \/ \E s \in ApiSessions : Login(s, "John", "john123")
  \/ \E s \in ApiSessions : Logout(s)
  \/ \E s \in ApiSessions : List(s, "trips")
  \/ \E s \in ApiSessions, body \in TripBodies : Create(s, "trips", body)
  \/ \E s \in ApiSessions, id \in Ids, body \in TripPatches : Patch(s, "trips", id, body)
  \/ \E s \in ApiSessions, id \in Ids : Delete(s, "trips", id)

SpecTripApi == Init /\ [][NextTripApi]_vars

\* ------------------------------------------------ the Storage Engine alone
\* The methods of MemStorage called directly, one call at a time; res keeps
\* the call and the value it returned (status 0: no HTTP response).
Ret(op, value) == Resp(op, 0, value)

\* InsertRoute .. InsertPayment values
Inserts(t) == {Merge(ValidBody(t), [vendorId |-> v]) : v \in VendorKeys}

StoredIds == 1..(MaxStored + 1)
StatusValues == {"confirmed", "refunded"}

\* Partial<Route>, Partial<Bus>, Partial<Trip> values
Updates(t) == {EmptyBody, DataPatch(t), [vendorId |-> MaxVendors]}

\* createRoute, createBus, createTrip, createBooking, createPayment, while
\* fewer than max records were created
Insert(max, t, data) ==
  LET c == createRecord(t, data)
  IN /\ Created < max
     /\ store' = [store EXCEPT ![t] = c.coll]
     /\ nextId' = [nextId EXCEPT ![t] = c.nextId]
     /\ res' = Ret("create " \o t, c.record)
     /\ createdBy' = [createdBy EXCEPT ![t] = Put(@, c.id, data.vendorId)]
     /\ assigned' = [assigned EXCEPT ![t] = Append(@, c.id)]
     /\ UNCHANGED <<vendors, vendorId, session, now, inflight>>

StoreCreate(t, data) == Insert(MaxStored, t, data)

\* getRoute, getBus, getTrip, getBooking, getPayment
StoreGet(t, id) ==
  /\ res' = Ret("get " \o t, getRecord(t, id))
  /\ UNCHANGED <<storageVars, historyVars, session, now, inflight>>

\* updateRoute, updateBus, updateTrip
StoreUpdate(t, id, updates) ==
  LET u == updateRecord(t, id, updates)
  IN /\ store' = [store EXCEPT ![t] = u.coll]
     /\ res' = Ret("update " \o t, u.record)
     /\ UNCHANGED <<vendors, vendorId, nextId, historyVars, session, now, inflight>>

\* updateBookingStatus, updatePaymentStatus
StoreUpdateStatus(t, id, status) ==
  LET u == updateStatus(t, id, status)
  IN /\ store' = [store EXCEPT ![t] = u.coll]
     /\ res' = Ret("updateStatus " \o t, u.record)
     /\ UNCHANGED <<vendors, vendorId, nextId, historyVars, session, now, inflight>>

\* a delete of a trip that also removes the bookings that refer to it
StoreDelete_cascade(t, id) ==
  LET d == deleteRecord(t, id)
      orphans == {k \in DOMAIN store["bookings"] : store["bookings"][k].tripId = id}
      left == [k \in DOMAIN store["bookings"] \ orphans |-> store["bookings"][k]]
  IN /\ store' = [store EXCEPT ![t] = d.coll,
                               !["bookings"] = IF t = "trips" THEN left ELSE @]
     /\ res' = Ret("delete " \o t, d.found)
     /\ UNCHANGED <<vendors, vendorId, nextId, historyVars, session, now, inflight>>

\* deleteRoute, deleteBus, deleteTrip
StoreDelete(t, id) ==
  LET d == deleteRecord(t, id)
  IN /\ store' = [store EXCEPT ![t] = d.coll]
     /\ res' = Ret("delete " \o t, d.found)
     /\ UNCHANGED <<vendors, vendorId, nextId, historyVars, session, now, inflight>>

\* one collection with update and delete and one with a status update: the
\* methods of the other collections are the same text with the names changed
StoreTypes == {"routes", "bookings"}

NextStore ==
  \/ \E t \in StoreTypes : \E data \in Inserts(t) : StoreCreate(t, data)
  \/ \E t \in StoreTypes, id \in StoredIds : StoreGet(t, id)
  \/ \E t \in StoreTypes \cap Editable, id \in StoredIds : \E updates \in Updates(t) :
       StoreUpdate(t, id, updates)
  \/ \E t \in StoreTypes \cap Statused, id \in StoredIds, status \in StatusValues :
       StoreUpdateStatus(t, id, status)
  \/ \E t \in StoreTypes \cap Editable, id \in StoredIds : StoreDelete(t, id)

SpecStore == Init /\ [][NextStore]_vars

\* Parents and the records that refer to them: a route, the trips on it, the
\* bookings on a trip and the payments of a booking, created, deleted and
\* updated by direct calls.
CascadeTypes == {"routes", "trips", "bookings", "payments"}

CascadeInserts(t) ==
  CASE t = "routes"   -> {[vendorId |-> 1, price |-> 150]}
    [] t = "trips"    -> {[vendorId |-> 1, routeId |-> 1, departureTime |-> 1,
                           arrivalTime |-> 2, availableSeats |-> 40]}
    [] t = "bookings" -> {[vendorId |-> 1, tripId |-> 1, seatCount |-> s] : s \in {1, 2}}
    [] t = "payments" -> {[vendorId |-> 1, bookingId |-> 1, amount |-> 100]}

CascadeIds == 1..MaxCascade

NextCascade ==
  \/ \E t \in CascadeTypes : \E data \in CascadeInserts(t) : Insert(MaxCascade, t, data)
  \/ \E t \in CascadeTypes \cap Editable, id \in CascadeIds : StoreDelete(t, id)
  \/ \E t \in CascadeTypes \cap Editable, id \in CascadeIds :
       StoreUpdate(t, id, [vendorId |-> MaxVendors])
  \/ \E t \in CascadeTypes \cap Statused, id \in CascadeIds :
       StoreUpdateStatus(t, id, "completed")

SpecCascade == Init /\ [][NextCascade]_vars

\* ------------------------------------------- the Aggregation/Query surface
\* The derived queries of MemStorage called directly on stores built by the
\* create and status methods.
\* the vendor asked about and another one
DashVendors == {1, 2}
Limits == {0, 1, 2, DefaultLimit}
DepartureTimes == 1..(MaxTime + 1)
BookingDates == {1, 2, 3}

\* InsertTrip values
TripInserts ==
  {[vendorId |-> v, departureTime |-> d, arrivalTime |-> d + 1] :
     v \in DashVendors, d \in DepartureTimes}

\* InsertBooking values: seatCount and bookingDate are optional
BookingInserts ==
  {Merge([vendorId |-> v, tripId |-> 1], opt) :
     v \in DashVendors,
     opt \in {EmptyBody} \cup {[seatCount |-> 2, bookingDate |-> d] : d \in BookingDates}}

\* InsertPayment values: status is optional
PaymentInserts ==
  {Merge([vendorId |-> v, bookingId |-> 1, amount |-> a], st) :
     v \in DashVendors, a \in {50, 100},
     st \in {EmptyBody, [status |-> "completed"], [status |-> "pending"]}}

\* getUpcomingTripsByVendor(vendorId, limit)
Upcoming(vid, limit) ==
  /\ res' = Ret("getUpcomingTripsByVendor",
                [vendorId |-> vid, limit |-> limit,
                 result |-> getUpcomingTripsByVendor(vid, limit)])
  /\ UNCHANGED <<storageVars, historyVars, session, now, inflight>>

\* getRecentBookingsByVendor(vendorId, limit)
Recent(vid, limit) ==
  /\ \E r \in getRecentBookingsByVendor(vid, limit) :
       res' = Ret("getRecentBookingsByVendor",
                  [vendorId |-> vid, limit |-> limit, result |-> r])
  /\ UNCHANGED <<storageVars, historyVars, session, now, inflight>>

\* getDashboardStats(vendorId)
Stats(vid) ==
  /\ res' = Ret("getDashboardStats", [vendorId |-> vid, result |-> getDashboardStats(vid)])
  /\ UNCHANGED <<storageVars, historyVars, session, now, inflight>>

NextTrips ==
  \/ Tick
  \/ \E data \in TripInserts : Insert(MaxDash, "trips", data)
  \/ \E vid \in DashVendors, limit \in Limits : Upcoming(vid, limit)

SpecTrips == Init /\ [][NextTrips]_vars

\* the trips of two vendors, the clock, and both queries that read the clock
NextActive ==
  \/ Tick
  \/ \E data \in TripInserts : Insert(MaxDash, "trips", data)
  \/ \E vid \in DashVendors, limit \in Limits : Upcoming(vid, limit)
  \/ \E vid \in DashVendors : Stats(vid)

SpecActive == Init /\ [][NextActive]_vars

NextBookings ==
  \/ \E data \in BookingInserts : Insert(MaxBookings, "bookings", data)
  \/ \E id \in 1..MaxBookings : StoreUpdateStatus("bookings", id, "cancelled")
  \/ \E vid \in DashVendors, limit \in Limits : Recent(vid, limit)
  \/ \E vid \in DashVendors : Stats(vid)

SpecBookings == Init /\ [][NextBookings]_vars

NextPayments ==
  \/ \E data \in PaymentInserts : Insert(MaxDash, "payments", data)
  \/ \E id \in 1..MaxDash, status \in {"completed", "refunded"} :
       StoreUpdateStatus("payments", id, status)
  \/ \E vid \in DashVendors : Stats(vid)

SpecPayments == Init /\ [][NextPayments]_vars

\* ------------------------------------------------------ requests in flight
\* Node runs a handler until its next await and then any other request may
\* run.  passport.session() awaits deserializeUser before the handler starts;
\* a handler awaits each storage call, whose body has already run when the
\* await yields.  A step that follows an await and neither reads nor writes
\* the storage engine is taken together with the step before it.
MaxInFlightCreates == 2

ConcUsernames == {"John", "alice"}
ConcRegisterBodies ==
  {[username |-> u, password |-> "alicepw1", email |-> u \o "@tiyende.co.zm"] :
     u \in ConcUsernames}
ConcTypes == {"routes", "bookings"}
ConcIds == 1..MaxInFlightCreates

\* the creates (vendors and records) run since construction
CreatesRun == (vendorId - 2) + Created

\* a request arrives: passport.session() resolves req.user
Begin(s, request) ==
  /\ inflight[s] = Idle
  /\ inflight' = [inflight EXCEPT ![s] =
       Merge(request, [pc |-> "handler", uid |-> userId(s)])]
  /\ session' = Deserialized(s)
  /\ UNCHANGED <<storageVars, historyVars, now, res>>

BeginRegister(s, body) == Begin(s, [kind |-> "register", body |-> body])
BeginCreate(s, t) == Begin(s, [kind |-> "create", t |-> t, body |-> ValidBody(t)])
BeginDelete(s, t, id) == Begin(s, [kind |-> "delete", t |-> t, id |-> id])

\* POST /api/register up to its first await: the existence check's lookup
RegisterLookup(s) ==
  LET r == inflight[s]
  IN /\ r.pc = "handler" /\ r.kind = "register"
     /\ inflight' = [inflight EXCEPT ![s] = Merge(r,
          [pc |-> "looked", existing |-> getVendorByUsername(r.body.username) # Undefined])]
     /\ UNCHANGED <<storageVars, historyVars, now, res, session>>

\* POST /api/register after the lookup: the check, the hash, createVendor, req.login
RegisterFinish(s) ==
  LET r == inflight[s]
      op == "POST /api/register"
      c == createVendor(Merge(r.body, [password |-> hashPassword(r.body.password)]))
  IN /\ r.pc = "looked" /\ r.kind = "register"
     /\ inflight' = [inflight EXCEPT ![s] = Idle]
     /\ IF r.existing
        THEN /\ res' = Resp(op, 400, "Username already exists")
             /\ UNCHANGED <<storageVars, historyVars, session>>
        ELSE /\ CreatesRun < MaxInFlightCreates
             /\ vendors' = c.vendors
             /\ vendorId' = c.vendorId
             /\ session' = [session EXCEPT ![s] = serializeUser(c.vendor)]
             /\ res' = Resp(op, 201, withoutPassword(c.vendor))
             /\ assigned' = [assigned EXCEPT !["vendors"] = Append(@, c.vendor.id)]
             /\ UNCHANGED <<store, nextId, createdBy>>
     /\ UNCHANGED now

\* POST /api/routes, ...: ensureAuthenticated, parse, and the create call
RunCreate(s) ==
  LET r == inflight[s]
      op == "POST " \o Path(r.t)
      p == parse(r.t, Merge(r.body, [vendorId |-> r.uid]))
      c == createRecord(r.t, p.data)
  IN /\ r.pc = "handler" /\ r.kind = "create"
     /\ inflight' = [inflight EXCEPT ![s] = Idle]
     /\ IF r.uid = 0
        THEN res' = Unauthorized(op) /\ UNCHANGED <<store, nextId, historyVars>>
        ELSE IF ~p.ok
        THEN /\ res' = Resp(op, 400, [message |-> "Invalid " \o Noun(r.t) \o " data"])
             /\ UNCHANGED <<store, nextId, historyVars>>
        ELSE /\ CreatesRun < MaxInFlightCreates
             /\ store' = [store EXCEPT ![r.t] = c.coll]
             /\ nextId' = [nextId EXCEPT ![r.t] = c.nextId]
             /\ res' = Resp(op, 201, c.record)
             /\ createdBy' = [createdBy EXCEPT ![r.t] = Put(@, c.id, r.uid)]
             /\ assigned' = [assigned EXCEPT ![r.t] = Append(@, c.id)]
     /\ UNCHANGED <<vendors, vendorId, now, session>>

\* DELETE /api/routes/:id, ... up to its first await: ensureAuthenticated and
\* the lookup
DeleteLookup(s) ==
  LET r == inflight[s]
  IN /\ r.pc = "handler" /\ r.kind = "delete"
     /\ IF r.uid = 0
        THEN /\ res' = Unauthorized("DELETE " \o Path(r.t) \o "/:id")
             /\ inflight' = [inflight EXCEPT ![s] = Idle]
        ELSE /\ inflight' = [inflight EXCEPT ![s] =
                  Merge(r, [pc |-> "looked", record |-> getRecord(r.t, r.id)])]
             /\ UNCHANGED res
     /\ UNCHANGED <<storageVars, historyVars, now, session>>

\* DELETE /api/routes/:id, ... after the lookup: the ownership check and the delete
DeleteFinish(s) ==
  LET r == inflight[s]
      op == "DELETE " \o Path(r.t) \o "/:id"
      d == deleteRecord(r.t, r.id)
  IN /\ r.pc = "looked" /\ r.kind = "delete"
     /\ inflight' = [inflight EXCEPT ![s] = Idle]
     /\ IF r.record = Undefined \/ r.record.vendorId # r.uid
        THEN res' = NotFound(op, r.t) /\ UNCHANGED store
        ELSE res' = Resp(op, 204, "") /\ store' = [store EXCEPT ![r.t] = d.coll]
     /\ UNCHANGED <<vendors, vendorId, nextId, historyVars, now, session>>

\* Requests in flight together: register, create and delete, with login taken
\* in one step.
NextConc ==
  \/ \E s \in Sessions : Login(s, "John", "john123")
  \/ \E s \in Sessions, body \in ConcRegisterBodies : BeginRegister(s, body)
  \/ \E s \in Sessions : RegisterLookup(s)
  \/ \E s \in Sessions : RegisterFinish(s)
  \/ \E s \in Sessions, t \in ConcTypes : BeginCreate(s, t)
  \/ \E s \in Sessions : RunCreate(s)
  \/ \E s \in Sessions, id \in ConcIds : BeginDelete(s, "routes", id)
  \/ \E s \in Sessions : DeleteLookup(s)
  \/ \E s \in Sessions : DeleteFinish(s)

SpecConc == Init /\ [][NextConc]_vars

\* ------------------------------------------------------------------ claims
\* the vendor key a client's session is bound to (0: anonymous)
SessionVendor(sess, vs, s) == IF sess[s] \in DOMAIN vs THEN sess[s] ELSE 0

\* a by-id request of client s on collection t, with any body (the test of
\* res'.op is implied by the handler and only spares evaluating the others)
ByIdRequest(s, t, id) ==
  \/ /\ t = "routes" /\ res'.op = "GET /api/routes/:id"
     /\ GetRoute(s, id)
  \/ /\ t \in Editable /\ res'.op = "PATCH " \o Path(t) \o "/:id"
     /\ \E body \in PatchBodies(t) : Patch(s, t, id, body)
  \/ /\ t \in Editable /\ res'.op = "DELETE " \o Path(t) \o "/:id"
     /\ Delete(s, t, id)
  \/ /\ t \in Statused /\ res'.op = "PATCH " \o Path(t) \o "/:id/status"
     /\ \E body \in StatusBodies(t) : PatchStatus(s, t, id, body)

\* a request of client s to a vendor-scoped endpoint
ScopedRequest(s) ==
  \/ res'.op = "GET /api/dashboard/stats" /\ GetStats(s)
  \/ res'.op = "GET /api/profile" /\ GetProfile(s)
  \/ res'.op = "PATCH /api/profile" /\ \E body \in ProfileBodies : PatchProfile(s, body)
  \/ \E t \in Types : res'.op = "GET " \o Path(t) /\ List(s, t)
  \/ res'.op = "GET /api/trips/upcoming" /\ \E q \in Queries : GetUpcoming(s, q)
  \/ res'.op = "GET /api/bookings/recent" /\ \E q \in Queries : GetRecent(s, q)
  \/ \E t \in Types : /\ res'.op = "POST " \o Path(t)
                      /\ \E body \in CreateBodies(t) : Create(s, t, body)
  \/ \E t \in Types, id \in Ids : ByIdRequest(s, t, id)

\* C1: a record created under one vendor is never returned by a listing or a
\* by-id lookup made as another vendor, and a by-id request for it made as
\* another vendor is answered 404.
C1_OwnershipIsolation ==
  [][\A s \in Sessions : isAuthenticated(s) =>
       /\ \A t \in Types : List(s, t) =>
            \A k \in DOMAIN store[t] :
              createdBy[t][k] # session[s] => store[t][k] \notin Range(res'.body)
       /\ \A t \in Types, id \in Ids :
            (ByIdRequest(s, t, id) /\ id \in DOMAIN store[t]
               /\ createdBy[t][id] # session[s]) => res'.status = 404]_vars

\* C2: for every by-id endpoint and every body, the response a vendor gets for
\* an id whose record another vendor owns is the 404 it gets for an id that
\* does not exist.
C2_ByIdNonInterference ==
  [][\A s \in Sessions, t \in Types, id \in Ids :
       (isAuthenticated(s) /\ ByIdRequest(s, t, id)
          /\ (id \in DOMAIN store[t] => store[t][id].vendorId # session[s]))
       => (res'.status = 404 /\ res'.body = [message |-> Singular(t) \o " not found"])]_vars

\* C3: a request to a vendor-scoped endpoint on an anonymous session is answered
\* 401 and changes nothing in the storage engine.
C3_AnonymousRejected ==
  [][\A s \in ApiSessions : (~isAuthenticated(s) /\ ScopedRequest(s)) =>
       /\ res'.status = 401
       /\ res'.body = [message |-> "Unauthorized"]
       /\ UNCHANGED storageVars]_vars

C3_Witness ==
  /\ res.op = "POST /api/routes"
  /\ res.status = 401
  /\ \A s \in ApiSessions : session[s] = 0
  /\ store["routes"] # EmptyMap

\* C4: the record a successful create stores carries the vendor key of the
\* session that issued the request, whatever the body says.
C4_CreateOwnedBySession ==
  [][\A s \in Sessions, t \in Types : \A body \in CreateBodies(t) :
       (Create(s, t, body) /\ res'.status = 201)
       => (nextId[t] \in DOMAIN store'[t]
             /\ store'[t][nextId[t]].vendorId = SessionVendor(session, vendors, s))]_vars

\* C6: no step changes the id or the createdAt of a stored record, vendors
\* included.
C6_IdentityImmutable ==
  [][/\ \A k \in DOMAIN vendors :
          vendors'[k].id = vendors[k].id /\ vendors'[k].createdAt = vendors[k].createdAt
     /\ \A t \in Types : \A k \in DOMAIN store[t] \cap DOMAIN store'[t] :
          store'[t][k].id = store[t][k].id
            /\ store'[t][k].createdAt = store[t][k].createdAt]_vars

\* C7: from its creation to its deletion a route keeps its vendorId.
C7_RouteKeepsVendor ==
  [][\A k \in DOMAIN store["routes"] \cap DOMAIN store'["routes"] :
       store'["routes"][k].vendorId = store["routes"][k].vendorId]_vars

\* C8: a register request whose login name some vendor already has is answered
\* 400, creates no vendor, leaves the vendor counter and the session as they
\* were; with a login name no vendor has it is answered 201, adds exactly one
\* vendor, under the next key and with that login name, and binds the session
\* to it.
C8_Register ==
  [][\A s \in Sessions, body \in RegisterBodies :
       (res'.op = "POST /api/register" /\ Register(s, body)) =>
         IF \E k \in DOMAIN vendors : vendors[k].username = body.username
         THEN /\ res'.status = 400
              /\ vendors' = vendors /\ vendorId' = vendorId
              /\ SessionVendor(session', vendors', s) = SessionVendor(session, vendors, s)
         ELSE /\ res'.status = 201
              /\ DOMAIN vendors' = DOMAIN vendors \cup {vendorId}
              /\ vendorId \notin DOMAIN vendors
              /\ \A k \in DOMAIN vendors : vendors'[k] = vendors[k]
              /\ vendors'[vendorId].username = body.username
              /\ vendorId' = vendorId + 1
              /\ SessionVendor(session', vendors', s) = vendorId]_vars

\* a duplicate of the seeded login name is refused after another vendor registered
C8_Witness ==
  /\ res.op = "POST /api/register"
  /\ res.status = 400
  /\ vendorId = 3
  /\ DOMAIN vendors = {1, 2}

\* C9: login binds the session to a vendor exactly when a vendor with the
\* supplied login name exists whose stored hash the supplied secret matches,
\* and then to such a vendor; otherwise the answer is 401 and the session
\* stays as it was.
C9_Login ==
  [][\A s \in Sessions, u \in Usernames, p \in Passwords :
       (res'.op = "POST /api/login" /\ Login(s, u, p)) =>
         LET match == {k \in DOMAIN vendors :
                         vendors[k].username = u
                           /\ comparePasswords(p, vendors[k].password)}
         IN IF match # {}
            THEN res'.status = 200 /\ SessionVendor(session', vendors', s) \in match
            ELSE /\ res'.status = 401
                 /\ SessionVendor(session', vendors', s)
                      = SessionVendor(session, vendors, s)]_vars

\* C10: no response that carries a vendor has a password field.
VendorOps ==
  {"POST /api/register", "POST /api/login", "GET /api/vendor",
   "GET /api/profile", "PATCH /api/profile"}

C10_NoSecretInResponse ==
  (res.op \in VendorOps /\ res.status \in {200, 201}) =>
    ("password" \notin DOMAIN res.body /\ "username" \in DOMAIN res.body)

\* a profile update whose body carried a password answers with the vendor
C10_Witness ==
  /\ res.op = "PATCH /api/profile"
  /\ res.status = 200
  /\ res.body.username = "alice"
  /\ \E k \in DOMAIN vendors : vendors[k].password = hashPassword("alicepw1")

\* C5: per collection the ids handed out by create start at 1 and increase
\* strictly in the order the creates run, also after deletions and with
\* several creates in flight; a create adds its own record under a key that
\* was free and changes no record that was there.
C5_Identities ==
  [][/\ \A t \in DOMAIN assigned :
          /\ assigned'[t] # <<>> => assigned'[t][1] = 1
          /\ \A i \in 1..(Len(assigned'[t]) - 1) : assigned'[t][i] < assigned'[t][i + 1]
     /\ \A t \in Types : assigned'[t] # assigned[t] =>
          LET id == assigned'[t][Len(assigned'[t])]
          IN /\ id \notin DOMAIN store[t]
             /\ DOMAIN store'[t] = DOMAIN store[t] \cup {id}
             /\ store'[t][id].id = id
             /\ \A k \in DOMAIN store[t] : store'[t][k] = store[t][k]
     /\ assigned'["vendors"] # assigned["vendors"] =>
          LET id == assigned'["vendors"][Len(assigned'["vendors"])]
          IN /\ id \notin DOMAIN vendors
             /\ DOMAIN vendors' = DOMAIN vendors \cup {id}
             /\ vendors'[id].id = id
             /\ \A k \in DOMAIN vendors : vendors'[k] = vendors[k]]_vars

\* a second route was created after the first was deleted, while another
\* create of a route was in flight
C5_Witness ==
  /\ assigned["routes"] = <<1, 2>>
  /\ DOMAIN store["routes"] = {2}
  /\ res.op = "POST /api/routes" /\ res.status = 201 /\ res.body.id = 2
  /\ \E s \in Sessions :
       inflight[s].pc = "handler" /\ inflight[s].kind = "create" /\ inflight[s].t = "routes"

\* C11: a session that is anonymous becomes authenticated only by its own
\* successful login or register, an authenticated one becomes anonymous only
\* by its own logout, and GET /api/vendor answers 401 exactly when the
\* session is anonymous.
C11_SessionStateMachine ==
  [][\A s \in Sessions :
       /\ (~isAuthenticated(s) /\ isAuthenticated(s)') =>
            \/ /\ res'.op = "POST /api/login" /\ res'.status = 200
               /\ \E u \in Usernames, p \in Passwords : Login(s, u, p)
            \/ /\ res'.op = "POST /api/register" /\ res'.status = 201
               /\ \E body \in ApiRegisterBodies : Register(s, body)
       /\ (isAuthenticated(s) /\ ~isAuthenticated(s)') =>
            (res'.op = "POST /api/logout" /\ Logout(s))
       /\ (res'.op = "GET /api/vendor" /\ GetVendor(s)) =>
            (res'.status = 401 <=> ~isAuthenticated(s))]_vars

\* C12: logout answers 200, leaves the session anonymous whether or not it was
\* authenticated before, and changes nothing in the storage engine.
C12_LogoutIdempotent ==
  [][\A s \in ApiSessions : (res'.op = "POST /api/logout" /\ Logout(s)) =>
       /\ res'.status = 200
       /\ ~isAuthenticated(s)'
       /\ SessionVendor(session', vendors', s) = 0
       /\ UNCHANGED storageVars]_vars

\* a logout was answered after a vendor had registered on the session
C12_Witness ==
  /\ res.op = "POST /api/logout" /\ res.status = 200
  /\ vendorId = 3
  /\ \A s \in ApiSessions : session[s] = 0

\* the collections and counters a call on collection t must leave alone
OthersKept(t) ==
  /\ \A o \in Types \ {t} : store'[o] = store[o] /\ nextId'[o] = nextId[o]
  /\ vendors' = vendors /\ vendorId' = vendorId

\* C13: a create returns the input plus the assigned id and the creation
\* time, a lookup of that id right after returns the same record, and no
\* other record changes.
C13_CreateThenGet ==
  [][\A t \in Types : \A data \in Inserts(t) :
       (res'.op = "create " \o t /\ StoreCreate(t, data)) =>
         LET r == res'.body
         IN /\ DOMAIN r = DOMAIN data \cup {"id", "createdAt"}
            /\ \A f \in DOMAIN data : r[f] = data[f]
            /\ r.id = nextId[t] /\ r.createdAt = now
            /\ r.id \in DOMAIN store'[t] /\ store'[t][r.id] = r
            /\ DOMAIN store'[t] = DOMAIN store[t] \cup {r.id}
            /\ \A k \in DOMAIN store[t] : store'[t][k] = store[t][k]
            /\ OthersKept(t)]_vars

\* a booking was created beside an earlier record and is what a lookup returns
C13_Witness ==
  /\ res.op = "create bookings"
  /\ getRecord("bookings", res.body.id) = res.body
  /\ res.body.seatCount = 2
  /\ Created = 2

\* C14: an update of a present record stores and returns the old record with
\* the supplied fields laid over it; omitted fields keep their values, an
\* empty update changes nothing, and no other record changes.
C14_UpdateMerges ==
  [][\A t \in Editable, id \in StoredIds : \A updates \in Updates(t) :
       (res'.op = "update " \o t /\ StoreUpdate(t, id, updates) /\ id \in DOMAIN store[t]) =>
         LET old == store[t][id]
             new == store'[t][id]
         IN /\ res'.body = new
            /\ DOMAIN new = DOMAIN old \cup DOMAIN updates
            /\ \A f \in DOMAIN new :
                 new[f] = IF f \in DOMAIN updates THEN updates[f] ELSE old[f]
            /\ (updates = EmptyBody => new = old)
            /\ DOMAIN store'[t] = DOMAIN store[t]
            /\ \A k \in DOMAIN store[t] \ {id} : store'[t][k] = store[t][k]
            /\ nextId'[t] = nextId[t]
            /\ OthersKept(t)]_vars

\* a route's price was updated while another route was stored
C14_Witness ==
  /\ res.op = "update routes"
  /\ res.body # Undefined
  /\ res.body.price = 200
  /\ Cardinality(DOMAIN store["routes"]) = 2

\* C15: on an id that is not present, a lookup, an update and a status update
\* return undefined and a delete returns false, and the collections and the
\* counters stay as they were.
C15_AbsentId ==
  [][\A t \in Types, id \in StoredIds : id \notin DOMAIN store[t] =>
       /\ (res'.op = "get " \o t /\ StoreGet(t, id)) =>
            (res'.body = Undefined /\ UNCHANGED storageVars)
       /\ (t \in Editable /\ res'.op = "update " \o t
             /\ \E updates \in Updates(t) : StoreUpdate(t, id, updates)) =>
            (res'.body = Undefined /\ UNCHANGED storageVars)
       /\ (t \in Statused /\ res'.op = "updateStatus " \o t
             /\ \E status \in StatusValues : StoreUpdateStatus(t, id, status)) =>
            (res'.body = Undefined /\ UNCHANGED storageVars)
       /\ (t \in Editable /\ res'.op = "delete " \o t /\ StoreDelete(t, id)) =>
            (res'.body = FALSE /\ UNCHANGED storageVars)]_vars

\* an update of an absent route was answered while a route was stored
C15_Witness ==
  /\ res.op = "update routes"
  /\ res.body = Undefined
  /\ store["routes"] # EmptyMap

\* C16: a delete returns true exactly when the id was present and removes
\* that record only; an id that was assigned and is absent stays absent.
C16_Delete ==
  [][/\ \A t \in Editable, id \in StoredIds :
          (res'.op = "delete " \o t /\ StoreDelete(t, id)) =>
            /\ res'.body = (id \in DOMAIN store[t])
            /\ DOMAIN store'[t] = DOMAIN store[t] \ {id}
            /\ \A k \in DOMAIN store'[t] : store'[t][k] = store[t][k]
            /\ nextId'[t] = nextId[t]
            /\ OthersKept(t)
     /\ \A t \in Types, id \in StoredIds :
          (id \in Range(assigned[t]) /\ id \notin DOMAIN store[t]) =>
            getRecord(t, id)' = Undefined]_vars

\* a second delete of route 1 returned false after route 2 had been created
C16_Witness ==
  /\ res.op = "delete routes"
  /\ res.body = FALSE
  /\ assigned["routes"] = <<1, 2>>
  /\ DOMAIN store["routes"] = {2}

\* the sum of g[k] over the keys k in S
RECURSIVE SumKeys(_, _)
SumKeys(S, g) ==
  IF S = {} THEN 0
  ELSE LET k == CHOOSE x \in S : TRUE IN g[k] + SumKeys(S \ {k}, g)

\* the keys of the records of collection t that refer to vendor vid
Owned(t, vid) == {k \in DOMAIN store[t] : store[t][k].vendorId = vid}

\* C17: for every vendor and limit the upcoming-trips query returns
\* min(limit, number of qualifying trips) distinct trips of that vendor that
\* depart after now, in ascending order of departure, and every qualifying
\* trip left out departs no sooner than each trip returned.
C17_UpcomingTrips ==
  \A vid \in DashVendors, limit \in Limits :
    LET r == getUpcomingTripsByVendor(vid, limit)
        trips == store["trips"]
        Q == {k \in Owned("trips", vid) : trips[k].departureTime > now}
    IN /\ Len(r) = Min({limit, Cardinality(Q)})
       /\ \A i \in 1..Len(r) : r[i] \in {trips[k] : k \in Q}
       /\ \A i, j \in 1..Len(r) : i < j =>
            (r[i].id # r[j].id /\ r[i].departureTime <= r[j].departureTime)
       /\ \A k \in Q : trips[k] \notin Range(r) =>
            \A i \in 1..Len(r) : r[i].departureTime <= trips[k].departureTime

\* with limit 1 the query returned the trip created second, which departs
\* sooner than the one created first; a third trip of the vendor has departed
C17_Witness ==
  /\ res.op = "getUpcomingTripsByVendor"
  /\ res.body.limit = 1
  /\ now = 1
  /\ DOMAIN store["trips"] = {1, 2}
  /\ \A k \in {1, 2} : store["trips"][k].vendorId = res.body.vendorId
  /\ store["trips"][1].departureTime = 3
  /\ store["trips"][2].departureTime = 2
  /\ res.body.result = <<store["trips"][2]>>

\* C18: for every vendor and limit the recent-bookings query returns
\* min(limit, number of the vendor's bookings) distinct bookings of that
\* vendor, those with a booking timestamp in descending order of it, and no
\* booking left out has a later timestamp than one returned.
C18_RecentBookings ==
  \A vid \in DashVendors, limit \in Limits :
    \A r \in getRecentBookingsByVendor(vid, limit) :
      LET bookings == store["bookings"]
          K == Owned("bookings", vid)
          Dated(b) == "bookingDate" \in DOMAIN b
      IN /\ Len(r) = Min({limit, Cardinality(K)})
         /\ \A i \in 1..Len(r) : r[i] \in {bookings[k] : k \in K}
         /\ \A i, j \in 1..Len(r) : i < j =>
              /\ r[i].id # r[j].id
              /\ (Dated(r[i]) /\ Dated(r[j])) => r[i].bookingDate >= r[j].bookingDate
         /\ \A k \in K : (bookings[k] \notin Range(r) /\ Dated(bookings[k])) =>
              \A i \in 1..Len(r) :
                Dated(r[i]) => r[i].bookingDate >= bookings[k].bookingDate

\* C19: for every vendor the statistics count the vendor's bookings, whatever
\* their status, and sum their seat counts, a booking created without a seat
\* count counting for the default of one seat.
C19_BookingStats ==
  \A vid \in DashVendors :
    LET stats == getDashboardStats(vid)
        bookings == store["bookings"]
        K == Owned("bookings", vid)
        seats == [k \in K |-> IF "seatCount" \in DOMAIN bookings[k]
                               THEN bookings[k].seatCount ELSE 1]
    IN /\ stats.bookings = Cardinality(K)
       /\ stats.totalPassengers = Num(SumKeys(K, seats))

\* C20: for every vendor the revenue of the statistics is the sum of the
\* amounts of the vendor's payments whose status is completed.
C20_Revenue ==
  \A vid \in DashVendors :
    LET payments == store["payments"]
        K == {k \in Owned("payments", vid) :
                "status" \in DOMAIN payments[k] /\ payments[k].status = "completed"}
        amounts == [k \in K |-> payments[k].amount]
    IN getDashboardStats(vid).revenue = Num(SumKeys(K, amounts))

\* the statistics were returned for a vendor with a refunded payment of 50
\* and a completed one of 100
C20_Witness ==
  /\ res.op = "getDashboardStats"
  /\ res.body.result.revenue = Num(100)
  /\ DOMAIN store["payments"] = {1, 2}
  /\ \A k \in {1, 2} : store["payments"][k].vendorId = res.body.vendorId
  /\ \A k \in {1, 2} : "status" \in DOMAIN store["payments"][k]
  /\ store["payments"][1].amount = 50 /\ store["payments"][1].status = "refunded"
  /\ store["payments"][2].amount = 100 /\ store["payments"][2].status = "completed"

\* C21: for every vendor the activeTrips of the statistics is the number of
\* the vendor's trips with departureTime <= now <= arrivalTime, and none of
\* those trips is returned by the upcoming-trips query at the same instant.
C21_ActiveTrips ==
  \A vid \in DashVendors :
    LET trips == store["trips"]
        A == {k \in Owned("trips", vid) :
                trips[k].departureTime <= now /\ now <= trips[k].arrivalTime}
    IN /\ getDashboardStats(vid).activeTrips = Cardinality(A)
       /\ \A limit \in Limits : \A k \in A :
            trips[k] \notin Range(getUpcomingTripsByVendor(vid, limit))

\* the statistics counted two active trips: one arrives now, the other departs now
C21_Witness ==
  /\ res.op = "getDashboardStats"
  /\ res.body.result.activeTrips = 2
  /\ DOMAIN store["trips"] = {1, 2}
  /\ \A k \in {1, 2} : store["trips"][k].vendorId = res.body.vendorId
  /\ store["trips"][1].arrivalTime = now
  /\ store["trips"][2].departureTime = now

C23_UniqueIdentity ==
  \A j, k \in DOMAIN vendors : j # k =>
    /\ vendors[j].username # vendors[k].username
    /\ vendors[j].email # vendors[k].email

\* C24: a request that is answered 400, 401 or 404 leaves every collection
\* and every id counter as it was.
C24_RejectedChangesNothing ==
  [][res'.status \in {400, 401, 404} => UNCHANGED storageVars]_vars

\* a create with an invalid body was refused while a route was stored, and
\* the route counter is still the one the stored route left
C24_Witness ==
  /\ res.op = "POST /api/routes"
  /\ res.status = 400
  /\ DOMAIN store["routes"] = {1}
  /\ nextId["routes"] = 2

\* C25: a register request that completes when a vendor with its login name
\* is already stored, because another register with that name completed while
\* it was in flight, is answered 400 and creates no vendor.
C25_ConcurrentRegister ==
  [][\A s \in Sessions :
       (/\ inflight[s].pc = "looked"
        /\ inflight[s].kind = "register"
        /\ RegisterFinish(s)
        /\ \E k \in DOMAIN vendors : vendors[k].username = inflight[s].body.username)
       => (res'.status = 400 /\ vendors' = vendors)]_vars

\* C26: the vendor id that the handlers scope by on an authenticated session
\* is the id bound to the session at login, which is the id the vendor was
\* assigned and is stored under.
C26_SessionIdentityFixed ==
  \A s \in Sessions : isAuthenticated(s) => userId(s) = session[s]

\* the lifecycle statuses the schema names
BookingStatuses == {"pending", "confirmed", "cancelled", "completed"}
PaymentStatuses == {"pending", "completed", "failed", "refunded"}

\* C27: the status of every stored booking and of every stored payment is one
\* of the statuses of its lifecycle.
C27_StatusEnumerated ==
  /\ \A k \in DOMAIN store["bookings"] :
       "status" \in DOMAIN store["bookings"][k] =>
         store["bookings"][k].status \in BookingStatuses
  /\ \A k \in DOMAIN store["payments"] :
       "status" \in DOMAIN store["payments"][k] =>
         store["payments"][k].status \in PaymentStatuses

\* the collection a booking or a payment refers to, and the referring field
ParentOf(t) == IF t = "bookings" THEN "trips" ELSE "bookings"
RefField(t) == IF t = "bookings" THEN "tripId" ELSE "bookingId"

\* C28: a booking or payment is created only for a stored parent of the same
\* vendor, and while its parent is stored the two carry the same vendorId.
C28_VendorReference ==
  [][\A t \in Statused :
       /\ assigned'[t] # assigned[t] =>
            LET child == store'[t][assigned'[t][Len(assigned'[t])]]
            IN /\ child[RefField(t)] \in DOMAIN store[ParentOf(t)]
               /\ store[ParentOf(t)][child[RefField(t)]].vendorId = child.vendorId
       /\ \A k \in DOMAIN store'[t] :
            LET child == store'[t][k]
            IN child[RefField(t)] \in DOMAIN store'[ParentOf(t)] =>
                 store'[ParentOf(t)][child[RefField(t)]].vendorId = child.vendorId]_vars

C30_ProfileKeepsSecret ==
  [][\A k \in DOMAIN vendors :
       k \in DOMAIN vendors' /\ vendors'[k].password = vendors[k].password]_vars

\* a profile update gave the seeded vendor another login name and left its hash
C30_Witness ==
  /\ res.op = "PATCH /api/profile"
  /\ res.status = 200
  /\ vendors[1].username = "alice"
  /\ vendors[1].password = hashPassword("john123")

====
